---- MODULE Spec2Model ----
(***************************************************************************)
(* drillx: proof-of-work hash construction over an Equi-X solver.          *)
(* Model of drillx/src/lib.rs.  Byte arrays are sequences of 0..255 with   *)
(* the lengths of the Rust arrays; index i of the Rust code is i + 1 here. *)
(***************************************************************************)
EXTENDS Integers, Sequences, FiniteSets

VARIABLES
    endian,   \* native byte order of the build: "little" or "big"
    mem,      \* content of the caller-owned equix::SolverMemory
    sol,      \* the caller's Solution value ({d, n}), or NoSolution
    watch,    \* the (challenge, nonce) whose first outcome is recorded
    first,    \* outcome of the first hash / hash_with_memory call on `watch`
    last      \* the last call: operation, arguments, return value

vars == <<endian, mem, sol, watch, first, last>>

(***************************************************************************)
(* Sizes of the fixed arrays.                                              *)
(***************************************************************************)
ChallengeLen == 32
NonceLen == 8
DigestLen == 16
SeedLen == 40
HashLen == 32
SolutionLen == 24
DigestWords == 8

(***************************************************************************)
(* Bounds of the checked input families.                                   *)
(***************************************************************************)
NumChallenges == 2
NumNonces == 2
NumFreeWords == 4
MaxSolutions == 2

\* [0; n]
Zeros(n) == [i \in 1..n |-> 0]

(***************************************************************************)
(* Inputs.                                                                 *)
(***************************************************************************)
\* Challenge 0 is 32 zero bytes; the others have no zero byte.
Challenge(k) == [i \in 1..ChallengeLen |-> IF k = 0 THEN 0 ELSE (k * i) % 256] \o <<>>
Challenges == {Challenge(k) : k \in 0..(NumChallenges - 1)}

\* Nonce 0 is 8 zero bytes, nonce 1 is [1,0,0,0,0,0,0,0], the others have no zero byte.
Nonce(k) == [i \in 1..NonceLen |-> IF k = 1 /\ i > 1 THEN 0 ELSE (k * i) % 256] \o <<>>
Nonces == {Nonce(k) : k \in 0..(NumNonces - 1)}

\* Byte strings of one fill value with one position overwritten.
PatternBytes(len) ==
    {[i \in 1..len |-> IF i = p THEN b ELSE a] : a \in {0, 255}, b \in {0, 1, 255}, p \in 1..len}

\* 16-bit values whose byte-swapped images are in the palette too.
Palette == {1, 256, 511, 65281}
\* The words of the positions that are not free, in no sorted order.
Filler == <<770, 3, 512, 2, 769, 515, 65535, 0>>

RECURSIVE WordsToBytesLE(_)
WordsToBytesLE(ws) ==
    IF ws = <<>> THEN <<>>
    ELSE <<Head(ws) % 256, Head(ws) \div 256>> \o WordsToBytesLE(Tail(ws))

DigestInputs ==
    {WordsToBytesLE([p \in 1..DigestWords |-> IF p <= NumFreeWords THEN f[p] ELSE Filler[p]]) :
        f \in [1..NumFreeWords -> Palette]}

(***************************************************************************)
(* seed: challenge || nonce in a zero-initialised 40-byte buffer.          *)
(***************************************************************************)
\* dst[lo..hi].copy_from_slice(src), lo and hi as in the Rust range; the two
\* lengths are equal at every call site (a mismatch panics).
copy_from_slice(dst, lo, hi, src) ==
    SubSeq(dst, 1, lo) \o SubSeq(src, 1, hi - lo) \o SubSeq(dst, hi + 1, Len(dst))

seed_nonce_first(challenge, nonce) ==
    LET r0 == [data |-> Zeros(SeedLen)]
        r1 == [r0 EXCEPT !.data = copy_from_slice(r0.data, 0, 8, nonce)]
        r2 == [r1 EXCEPT !.data = copy_from_slice(r1.data, 8, 40, challenge)]
    IN  r2

seed(challenge, nonce) ==
    LET r0 == [data |-> Zeros(SeedLen)]
        r1 == [r0 EXCEPT !.data = copy_from_slice(r0.data, 0, 32, challenge)]
        r2 == [r1 EXCEPT !.data = copy_from_slice(r1.data, 32, 40, nonce)]
    IN  r2

(***************************************************************************)
(* sorted: the digest reinterpreted as [u16; 8] in native byte order,      *)
(* sorted ascending, and read back as bytes.                               *)
(***************************************************************************)
ReadU16(b0, b1) == IF endian = "little" THEN b0 + 256 * b1 ELSE 256 * b0 + b1

\* transmute::<&mut [u8; 16], &mut [u16; 8]>
RECURSIVE AsU16(_)
AsU16(bytes) ==
    IF bytes = <<>> THEN <<>>
    ELSE <<ReadU16(bytes[1], bytes[2])>> \o AsU16(SubSeq(bytes, 3, Len(bytes)))

\* The bytes behind a [u16] slice.
WriteU16(w) == IF endian = "little" THEN <<w % 256, w \div 256>> ELSE <<w \div 256, w % 256>>

RECURSIVE AsU8(_)
AsU8(ws) == IF ws = <<>> THEN <<>> ELSE WriteU16(Head(ws)) \o AsU8(Tail(ws))

RECURSIVE InsertOrdered(_, _)
InsertOrdered(x, s) ==
    IF s = <<>> THEN <<x>>
    ELSE IF x <= Head(s) THEN <<x>> \o s
    ELSE <<Head(s)>> \o InsertOrdered(x, Tail(s))

RECURSIVE sort_unstable(_)
sort_unstable(s) ==
    IF s = <<>> THEN <<>> ELSE InsertOrdered(Head(s), sort_unstable(Tail(s)))

sorted_as_bytes(digest) == sort_unstable(digest)

sorted(digest) == AsU8(sort_unstable(AsU16(digest)))

(***************************************************************************)
(* hashv: Keccak-256 of sorted(digest) || nonce.  Keccak-256 is an ideal    *)
(* hash: its value is determined by, and determines, the absorbed bytes.   *)
(***************************************************************************)
Keccak256_new == <<>>
Keccak256_update(hasher, data) == hasher \o data
Keccak256_finalize(hasher) == [keccak256 |-> hasher]

hashv_raw_digest(digest, nonce) ==
    Keccak256_finalize(Keccak256_update(Keccak256_update(Keccak256_new, digest), nonce))

hashv(digest, nonce) ==
    LET h0 == Keccak256_new
        h1 == Keccak256_update(h0, sorted(digest))
        h2 == Keccak256_update(h1, nonce)
    IN  Keccak256_finalize(h2)

(***************************************************************************)
(* difficulty: leading zero bits, byte by byte, stopping at the first byte *)
(* with fewer than 8 leading zeros.                                        *)
(***************************************************************************)
\* u8::leading_zeros
leading_zeros(byte) ==
    IF byte = 0 THEN 8
    ELSE IF byte < 2 THEN 7
    ELSE IF byte < 4 THEN 6
    ELSE IF byte < 8 THEN 5
    ELSE IF byte < 16 THEN 4
    ELSE IF byte < 32 THEN 3
    ELSE IF byte < 64 THEN 2
    ELSE IF byte < 128 THEN 1
    ELSE 0

RECURSIVE difficulty_loop(_, _, _)
difficulty_loop(hash, i, count) ==
    IF i > Len(hash) THEN count
    ELSE LET lz == leading_zeros(hash[i])
             count1 == count + lz
         IN  IF lz < 8 THEN count1 ELSE difficulty_loop(hash, i + 1, count1)

RECURSIVE difficulty_no_break_loop(_, _, _)
difficulty_no_break_loop(hash, i, count) ==
    IF i > Len(hash) THEN count
    ELSE difficulty_no_break_loop(hash, i + 1, count + leading_zeros(hash[i]))

difficulty_no_break(hash) == difficulty_no_break_loop(hash, 1, 0)

difficulty(hash) == difficulty_loop(hash, 1, 0)

(***************************************************************************)
(* Solution: {d, n} and its 24-byte encoding.                              *)
(***************************************************************************)
Solution_new(digest, nonce) == [d |-> digest, n |-> nonce]

Solution_from_bytes(bytes) ==
    LET d == copy_from_slice(Zeros(DigestLen), 0, 16, SubSeq(bytes, 1, 16))
        n == copy_from_slice(Zeros(NonceLen), 0, 8, SubSeq(bytes, 17, Len(bytes)))
    IN  [d |-> d, n |-> n]

Solution_to_bytes_nonce_first(self) ==
    LET b0 == Zeros(SolutionLen)
        b1 == copy_from_slice(b0, 0, 8, self.n)
        b2 == copy_from_slice(b1, 8, 24, self.d)
    IN  b2

Solution_to_bytes(self) ==
    LET b0 == Zeros(SolutionLen)
        b1 == copy_from_slice(b0, 0, 16, self.d)
        b2 == copy_from_slice(b1, 16, Len(b0), self.n)
    IN  b2

(***************************************************************************)
(* The equix crate: an external, deterministic Equi-X solver and verifier. *)
(* A seed either has no HashX program (build fails) or has a fixed list of *)
(* solutions, each 8 u16 indices; the verifier accepts exactly their byte  *)
(* encodings.                                                              *)
(***************************************************************************)
Ok(v) == [ok |-> v]
Err(e) == [err |-> e]
IsOk(r) == "ok" \in DOMAIN r

\* The puzzle a seed defines: a fixed function of the seed's bytes.
HashX(data) ==
    2 * data[1] + data[33] + 4 * (data[2] + data[17] + data[32] + data[34] + data[40]) + 2

\* 0: the seed has no program; k > 0: the puzzle has k - 1 solutions.
equix_class(data) == HashX(data) % (MaxSolutions + 2)

RECURSIVE equix_indices(_, _, _)
equix_indices(h, r, j) ==
    IF j > DigestWords THEN <<>>
    ELSE <<((h + 3 * r + 5 * j) * 40503) % 65536>> \o equix_indices(h, r, j + 1)

\* The r-th solution of the puzzle, as its 8 indices.
equix_solution(data, r) == equix_indices(HashX(data), r, 1)

\* equix::Solution::to_bytes: each index as little-endian u16.
equix_Solution_to_bytes(solution) == WordsToBytesLE(solution)

FreshMemory == [used |-> FALSE, scratch |-> <<>>]

\* EquiXBuilder::new().runtime(option).build(challenge)
EquiXBuilder_build(option, data) ==
    IF equix_class(data) = 0 THEN Err("Hash") ELSE Ok([challenge |-> data, runtime |-> option])

\* EquiX::solve_with_memory: the scratch memory is overwritten by the search.
EquiX_solve_with_memory(equix, memory) ==
    [solutions |-> [r \in 1..(equix_class(equix.challenge) - 1) |->
                        equix_solution(equix.challenge, r)] \o <<>>,
     memory |-> [used |-> TRUE, scratch |-> equix.challenge]]

\* equix::solve: a default (TryCompile) build and a search in memory of its own.
equix_solve(data) ==
    LET built == EquiXBuilder_build("TryCompile", data)
    IN  IF IsOk(built) THEN Ok(EquiX_solve_with_memory(built.ok, FreshMemory).solutions)
        ELSE built

\* equix::verify_bytes
equix_verify_bytes(data, bytes) ==
    IF equix_class(data) # 0
       /\ \E r \in 1..(equix_class(data) - 1) : equix_Solution_to_bytes(equix_solution(data, r)) = bytes
    THEN Ok(<<>>)
    ELSE Err("Verify")

(***************************************************************************)
(* The solver adapter.  Every operation returns its value (ret) and the    *)
(* calls it made to the equix crate with what they returned (ext).         *)
(***************************************************************************)
UndefinedBehaviour == [ub |-> "get_unchecked out of bounds"]

is_empty(s) == Len(s) = 0

IsUB(x) == "ub" \in DOMAIN x

\* An in-bounds read yields the element; any other read is undefined behaviour.
get_unchecked(s, index) == IF index < Len(s) THEN [at |-> s[index + 1]] ELSE UndefinedBehaviour

\* Ok(solution.to_bytes())
solution_bytes(solution) ==
    IF IsUB(solution) THEN solution ELSE Ok(equix_Solution_to_bytes(solution.at))

digest_unchecked_empty(challenge, nonce) ==
    LET s == seed(challenge, nonce)
        solved == equix_solve(s.data)
        ext == <<[fn |-> "equix::solve", seed |-> s.data, returned |-> solved]>>
    IN  IF ~IsOk(solved) THEN [ret |-> Err("BadEquix"), ext |-> ext]
        ELSE [ret |-> solution_bytes(get_unchecked(solved.ok, 0)), ext |-> ext]

digest(challenge, nonce) ==
    LET s == seed(challenge, nonce)
        solved == equix_solve(s.data)
        ext == <<[fn |-> "equix::solve", seed |-> s.data, returned |-> solved]>>
    IN  IF ~IsOk(solved) THEN [ret |-> Err("BadEquix"), ext |-> ext]
        ELSE IF is_empty(solved.ok) THEN [ret |-> Err("NoSolutions"), ext |-> ext]
        ELSE [ret |-> solution_bytes(get_unchecked(solved.ok, 0)), ext |-> ext]

\* A solver adapter that takes the last solution of the set.
digest_with_memory_last(memory, challenge, nonce) ==
    LET s == seed(challenge, nonce)
        built == EquiXBuilder_build("TryCompile", s.data)
        ext1 == <<[fn |-> "EquiXBuilder::build", runtime |-> "TryCompile", seed |-> s.data,
                   returned |-> built]>>
    IN  IF ~IsOk(built) THEN [ret |-> Err("BadEquix"), ext |-> ext1, memory |-> memory]
        ELSE LET solved == EquiX_solve_with_memory(built.ok, memory)
                 ext == ext1 \o <<[fn |-> "EquiX::solve_with_memory", seed |-> s.data,
                                   returned |-> Ok(solved.solutions)]>>
             IN  IF is_empty(solved.solutions)
                 THEN [ret |-> Err("NoSolutions"), ext |-> ext, memory |-> solved.memory]
                 ELSE [ret |-> solution_bytes(get_unchecked(solved.solutions,
                                                            Len(solved.solutions) - 1)),
                       ext |-> ext, memory |-> solved.memory]

\* A solver adapter that keeps the context of the memory's previous search.
digest_with_memory_stale(memory, challenge, nonce) ==
    LET s == IF memory.used THEN [data |-> memory.scratch] ELSE seed(challenge, nonce)
        built == EquiXBuilder_build("TryCompile", s.data)
        ext1 == <<[fn |-> "EquiXBuilder::build", runtime |-> "TryCompile", seed |-> s.data,
                   returned |-> built]>>
    IN  IF ~IsOk(built) THEN [ret |-> Err("BadEquix"), ext |-> ext1, memory |-> memory]
        ELSE LET solved == EquiX_solve_with_memory(built.ok, memory)
                 ext == ext1 \o <<[fn |-> "EquiX::solve_with_memory", seed |-> s.data,
                                   returned |-> Ok(solved.solutions)]>>
             IN  IF is_empty(solved.solutions)
                 THEN [ret |-> Err("NoSolutions"), ext |-> ext, memory |-> solved.memory]
                 ELSE [ret |-> solution_bytes(get_unchecked(solved.solutions, 0)),
                       ext |-> ext, memory |-> solved.memory]

digest_with_memory(memory, challenge, nonce) ==
    LET s == seed(challenge, nonce)
        built == EquiXBuilder_build("TryCompile", s.data)
        ext1 == <<[fn |-> "EquiXBuilder::build", runtime |-> "TryCompile", seed |-> s.data,
                   returned |-> built]>>
    IN  IF ~IsOk(built) THEN [ret |-> Err("BadEquix"), ext |-> ext1, memory |-> memory]
        ELSE LET solved == EquiX_solve_with_memory(built.ok, memory)
                 ext == ext1 \o <<[fn |-> "EquiX::solve_with_memory", seed |-> s.data,
                                   returned |-> Ok(solved.solutions)]>>
             IN  IF is_empty(solved.solutions)
                 THEN [ret |-> Err("NoSolutions"), ext |-> ext, memory |-> solved.memory]
                 ELSE [ret |-> solution_bytes(get_unchecked(solved.solutions, 0)),
                       ext |-> ext, memory |-> solved.memory]

(***************************************************************************)
(* hash, hash_with_memory: the digest paired with its hash.                *)
(***************************************************************************)
hash(challenge, nonce) ==
    LET dg == digest(challenge, nonce)
    IN  IF IsOk(dg.ret)
        THEN [ret |-> Ok([d |-> dg.ret.ok, h |-> hashv(dg.ret.ok, nonce)]), ext |-> dg.ext]
        ELSE dg

hash_with_memory(memory, challenge, nonce) ==
    LET dg == digest_with_memory(memory, challenge, nonce)
    IN  IF IsOk(dg.ret)
        THEN [ret |-> Ok([d |-> dg.ret.ok, h |-> hashv(dg.ret.ok, nonce)]),
              ext |-> dg.ext, memory |-> dg.memory]
        ELSE dg

(***************************************************************************)
(* Verification and re-hashing of a Solution.                              *)
(***************************************************************************)
is_valid_digest_sorted(challenge, nonce, dg) ==
    LET s == seed(challenge, nonce)
        verified == equix_verify_bytes(s.data, sorted(dg))
    IN  [ret |-> IsOk(verified),
         ext |-> <<[fn |-> "equix::verify_bytes", seed |-> s.data, digest |-> sorted(dg),
                    returned |-> verified]>>]

is_valid_digest(challenge, nonce, dg) ==
    LET s == seed(challenge, nonce)
        verified == equix_verify_bytes(s.data, dg)
    IN  [ret |-> IsOk(verified),
         ext |-> <<[fn |-> "equix::verify_bytes", seed |-> s.data, digest |-> dg,
                    returned |-> verified]>>]

Solution_is_valid(self, challenge) == is_valid_digest(challenge, self.n, self.d)

\* A to_hash that canonicalises the stored digest in place.
Solution_to_hash_in_place(self) ==
    LET self1 == [self EXCEPT !.d = sorted(self.d)]
    IN  [self |-> self1, ret |-> [d |-> self1.d, h |-> hashv(self1.d, self1.n)]]

Solution_to_hash(self) ==
    LET d == self.d
    IN  [self |-> self, ret |-> [d |-> self.d, h |-> hashv(d, self.n)]]

(***************************************************************************)
(* The caller: a session of calls to the public API.                       *)
(***************************************************************************)
Endians == {"little", "big"}
NoCall == [op |-> "none"]

\* A call that has returned carries its return value.
Returned(call) == "ret" \in DOMAIN call

\* The digest a caller holds: the one the last call returned.
CallerDigests ==
    IF last.op \in {"hash", "hash_with_memory"} /\ IsOk(last.ret)
    THEN {last.ret.ok.d}
    ELSE {}

\* Whether (c, n) is the watched input and was solved before.
Repeated(c, n) == watch = <<c, n>> /\ first # <<>>

\* The first outcome on the watched input, once there is one.
Record(c, n, ret) == IF watch = <<c, n>> /\ first = <<>> THEN <<ret>> ELSE first

Init ==
    /\ endian \in Endians
    /\ mem = FreshMemory
    /\ sol = <<>>
    /\ watch \in Challenges \X Nonces
    /\ first = <<>>
    /\ last = NoCall

Hash(c, n) ==
    \E r \in {hash(c, n)} :
        /\ last' = [op |-> "hash", challenge |-> c, nonce |-> n, ret |-> r.ret, ext |-> r.ext,
                    repeated |-> Repeated(c, n)]
        /\ first' = Record(c, n, r.ret)
        /\ UNCHANGED <<endian, mem, sol, watch>>

HashWithMemory(c, n) ==
    \E r \in {hash_with_memory(mem, c, n)} :
        /\ last' = [op |-> "hash_with_memory", memory |-> mem, challenge |-> c, nonce |-> n,
                    ret |-> r.ret, ext |-> r.ext, repeated |-> Repeated(c, n)]
        /\ mem' = r.memory
        /\ first' = Record(c, n, r.ret)
        /\ UNCHANGED <<endian, sol, watch>>

SolutionNew(d, n) ==
    \E r \in {Solution_new(d, n)} :
        /\ sol' = <<r>>
        /\ last' = [op |-> "new", digest |-> d, nonce |-> n, ret |-> r]
        /\ UNCHANGED <<endian, mem, watch, first>>

IsValid(c) ==
    /\ sol # <<>>
    /\ \E r \in {Solution_is_valid(sol[1], c)} :
           last' = [op |-> "is_valid", self |-> sol[1], challenge |-> c, ret |-> r.ret,
                    ext |-> r.ext]
    /\ UNCHANGED <<endian, mem, sol, watch, first>>

ToHash ==
    /\ sol # <<>>
    /\ \E r \in {Solution_to_hash(sol[1])} :
           /\ last' = [op |-> "to_hash", self |-> sol[1], ret |-> r.ret]
           /\ sol' = <<r.self>>
    /\ UNCHANGED <<endian, mem, watch, first>>

Next ==
    \/ \E c \in Challenges, n \in Nonces : Hash(c, n)
    \/ \E c \in Challenges, n \in Nonces : HashWithMemory(c, n)
    \/ \E d \in CallerDigests : SolutionNew(d, last.nonce)
    \/ \E c \in Challenges : IsValid(c)
    \/ ToHash

Spec == Init /\ [][Next]_vars

(***************************************************************************)
(* The functions one at a time: a call with its arguments is drawn, the    *)
(* function is applied, the call holds what it returned.                   *)
(***************************************************************************)
\* 32-byte hashes: a run of zero bytes, one nonzero byte, a filled tail.
LeadBytes == (1..16) \cup {31, 32, 33, 63, 64, 65, 127, 128, 129, 170, 254, 255}

HashInputs ==
    {Zeros(HashLen)} \cup
    {Zeros(z) \o <<b>> \o [i \in 1..(HashLen - z - 1) |-> t] :
        z \in 0..(HashLen - 1), b \in LeadBytes, t \in {0, 255}}

SolutionInputs == {Solution_new(d, n) : d \in PatternBytes(DigestLen), n \in PatternBytes(NonceLen)}

PureCalls ==
    {[op |-> "seed", challenge |-> c, nonce |-> n] :
        c \in PatternBytes(ChallengeLen), n \in PatternBytes(NonceLen)}
    \cup {[op |-> "sorted", digest |-> d] : d \in DigestInputs}
    \cup {[op |-> "hashv", digest |-> d, nonce |-> n] : d \in DigestInputs, n \in Nonces}
    \cup {[op |-> "difficulty", hash |-> h] : h \in HashInputs}
    \cup {[op |-> "to_bytes", self |-> x] : x \in SolutionInputs}
    \cup {[op |-> "from_bytes", bytes |-> b] : b \in PatternBytes(SolutionLen)}

InitPure ==
    /\ endian \in Endians
    /\ mem = FreshMemory
    /\ sol = <<>>
    /\ watch = <<Challenge(0), Nonce(0)>>
    /\ first = <<>>
    /\ last \in PureCalls

Return(value) ==
    /\ last' = [f \in DOMAIN last \cup {"ret"} |-> IF f = "ret" THEN value ELSE last[f]]
    /\ UNCHANGED <<endian, mem, sol, watch, first>>

ApplySeed == ~Returned(last) /\ last.op = "seed" /\ Return(seed(last.challenge, last.nonce))

ApplySorted == ~Returned(last) /\ last.op = "sorted" /\ Return(sorted(last.digest))

ApplyHashv == ~Returned(last) /\ last.op = "hashv" /\ Return(hashv(last.digest, last.nonce))

ApplyDifficulty == ~Returned(last) /\ last.op = "difficulty" /\ Return(difficulty(last.hash))

ApplyToBytes == ~Returned(last) /\ last.op = "to_bytes" /\ Return(Solution_to_bytes(last.self))

ApplyFromBytes ==
    ~Returned(last) /\ last.op = "from_bytes" /\ Return(Solution_from_bytes(last.bytes))

NextPure ==
    \/ ApplySeed
    \/ ApplySorted
    \/ ApplyHashv
    \/ ApplyDifficulty
    \/ ApplyToBytes
    \/ ApplyFromBytes

SpecPure == InitPure /\ [][NextPure]_vars

(***************************************************************************)
(* Properties of the canonicaliser and hasher.                             *)
(***************************************************************************)
\* The digest with its 16-bit units reordered: unit k of the result is unit p[k] of d.
Reorder(d, p) == [i \in 1..DigestLen |-> d[2 * p[(i + 1) \div 2] - (i % 2)]] \o <<>>

\* Every transposition of two units, the reversal and the rotation by one.
Reorderings ==
    {[k \in 1..DigestWords |-> IF k = i THEN j ELSE IF k = j THEN i ELSE k] :
        i \in 1..DigestWords, j \in 1..DigestWords}
    \cup {[k \in 1..DigestWords |-> DigestWords + 1 - k]}
    \cup {[k \in 1..DigestWords |-> (k % DigestWords) + 1]}

Count(s, x) == Cardinality({k \in 1..Len(s) : s[k] = x})

IsPermutationOf(s, t) ==
    /\ Len(s) = Len(t)
    /\ \A k \in 1..Len(s) : Count(s, s[k]) = Count(t, s[k])

IsAscending(s) == \A k \in 1..(Len(s) - 1) : s[k] <= s[k + 1]

\* C1: malleability resistance.  For every nonce and every digest, hashv of any
\* reordering of the digest's 8 u16 values equals hashv of the digest: the hash
\* is Keccak-256 of sorted(digest) || nonce.
C1_MalleabilityResistance ==
    (last.op = "hashv" /\ Returned(last)) =>
        /\ last.ret = Keccak256_finalize(sorted(last.digest) \o last.nonce)
        /\ \A p \in Reorderings :
              hashv(Reorder(last.digest, p), last.nonce) = last.ret

C1_Witness ==
    /\ last.op = "hashv" /\ Returned(last)
    /\ sorted(last.digest) # last.digest
    /\ \E p \in Reorderings :
          /\ Reorder(last.digest, p) # last.digest
          /\ Reorder(last.digest, p) # sorted(last.digest)
          /\ hashv(Reorder(last.digest, p), last.nonce) = last.ret

\* C8: canonicalisation.  sorted(d), read as 8 native-order u16 values, is in
\* non-decreasing order and is a permutation of the values of d, and sorted is
\* idempotent.
C8_SortedCanonical ==
    (last.op = "sorted" /\ Returned(last)) =>
        /\ Len(last.ret) = DigestLen
        /\ IsAscending(AsU16(last.ret))
        /\ IsPermutationOf(AsU16(last.ret), AsU16(last.digest))
        /\ sorted(last.ret) = last.ret

C8_Witness ==
    /\ last.op = "sorted" /\ Returned(last)
    /\ last.ret # last.digest
    /\ \E k \in 1..(DigestWords - 1) : AsU16(last.ret)[k] = AsU16(last.ret)[k + 1]
    /\ sorted(last.ret) = last.ret

(***************************************************************************)
(* Properties of the seed builder, the difficulty scorer and the codec.    *)
(***************************************************************************)
\* C10: seed layout.  seed(challenge, nonce) is 40 bytes, bytes 0-31 the
\* challenge and bytes 32-39 the nonce, and it is the seed that digest,
\* digest_with_memory and is_valid_digest hand to the solver and the verifier.
C10_SeedLayout ==
    (last.op = "seed" /\ Returned(last)) =>
        LET data == last.ret.data
            c == last.challenge
            n == last.nonce
            passed == digest(c, n).ext \o digest_with_memory(FreshMemory, c, n).ext
                        \o is_valid_digest(c, n, Zeros(DigestLen)).ext
        IN  /\ Len(data) = SeedLen
            /\ \A i \in 1..ChallengeLen : data[i] = c[i]
            /\ \A i \in 1..NonceLen : data[ChallengeLen + i] = n[i]
            /\ \A k \in 1..Len(passed) : passed[k].seed = data

C10_Witness ==
    /\ last.op = "seed" /\ Returned(last)
    /\ last.challenge[ChallengeLen] = 255 /\ last.challenge[1] = 0
    /\ last.nonce[1] = 1 /\ last.nonce[NonceLen] = 255
    /\ last.ret.data[ChallengeLen + 1] = 1
    /\ Len(digest_with_memory(FreshMemory, last.challenge, last.nonce).ext) = 2

\* Bit k (1 = most significant) of the hash read as a 256-bit big-endian integer.
Bit(h, k) == (h[((k - 1) \div 8) + 1] \div (2 ^ (7 - ((k - 1) % 8)))) % 2

\* The number of zero bits before the first one bit; all of them if there is none.
LeadingZeroBits(h) ==
    LET ones == {k \in 1..(8 * Len(h)) : Bit(h, k) = 1}
    IN  IF ones = {} THEN 8 * Len(h)
        ELSE (CHOOSE m \in ones : \A k \in ones : m <= k) - 1

\* The hash with every byte after its first nonzero byte replaced by t.
WithTail(h, t) == [i \in 1..Len(h) |-> IF \E j \in 1..(i - 1) : h[j] # 0 THEN t ELSE h[i]] \o <<>>

\* C3: difficulty(hash) is the number of leading zero bits of the hash as a
\* 256-bit big-endian integer: in 0..256, 256 exactly for the all-zero hash, 12
\* for a hash starting 0x00 0x0F, and independent of the bytes after the first
\* nonzero byte.
C3_DifficultyLeadingZeros ==
    (last.op = "difficulty" /\ Returned(last)) =>
        /\ last.ret = LeadingZeroBits(last.hash)
        /\ last.ret \in 0..(8 * HashLen)
        /\ (last.ret = 8 * HashLen) <=> (last.hash = Zeros(HashLen))
        /\ (last.hash[1] = 0 /\ last.hash[2] = 15) => last.ret = 12
        /\ \A t \in {0, 1, 255} : difficulty(WithTail(last.hash, t)) = last.ret

C3_Witness ==
    /\ last.op = "difficulty" /\ Returned(last)
    /\ last.hash[1] = 0 /\ last.hash[2] = 15 /\ last.hash[3] = 0 /\ last.hash[HashLen] = 0
    /\ last.ret = 12
    /\ difficulty(WithTail(last.hash, 255)) = 12

\* C2: Solution codec.  to_bytes(s) is the 24 bytes d || n and from_bytes
\* recovers s from it; from_bytes decodes every 24-byte input b, and to_bytes
\* gives b back.
C2_CodecRoundTrip ==
    /\ (last.op = "to_bytes" /\ Returned(last)) =>
          /\ Len(last.ret) = SolutionLen
          /\ \A i \in 1..DigestLen : last.ret[i] = last.self.d[i]
          /\ \A i \in 1..NonceLen : last.ret[DigestLen + i] = last.self.n[i]
          /\ Solution_from_bytes(last.ret) = last.self
    /\ (last.op = "from_bytes" /\ Returned(last)) =>
          /\ DOMAIN last.ret = {"d", "n"}
          /\ Len(last.ret.d) = DigestLen /\ Len(last.ret.n) = NonceLen
          /\ \A i \in 1..DigestLen : last.ret.d[i] = last.bytes[i]
          /\ \A i \in 1..NonceLen : last.ret.n[i] = last.bytes[DigestLen + i]
          /\ Solution_to_bytes(last.ret) = last.bytes

C2_Witness ==
    /\ last.op = "to_bytes" /\ Returned(last)
    /\ last.self.d[DigestLen] = 255 /\ last.self.n[1] = 1 /\ last.self.d[1] = 0
    /\ last.ret[DigestLen] = 255 /\ last.ret[DigestLen + 1] = 1
    /\ Solution_from_bytes(last.ret) = last.self

(***************************************************************************)
(* Properties of the solver adapter and of the Solution methods.           *)
(***************************************************************************)
IsSolve(call) == Returned(call) /\ call.op \in {"hash", "hash_with_memory"}

\* What the solver answered to the calls of an operation: its error, or its solution set.
SolverAnswer(ext) == ext[Len(ext)].returned

\* Both entry points on (c, n), the second on the scratch memory as it is now
\* (every content the memory can have occurs with every call).
BothEntryPoints(c, n) ==
    {[ret |-> r.ret, ext |-> r.ext] : r \in {hash(c, n), hash_with_memory(mem, c, n)}}

\* C4: memory-reuse equivalence.  On the same (challenge, nonce), whatever the
\* scratch memory holds, hash and hash_with_memory that both succeed return the
\* same digest and hash; they call the solver on the same seed, one by
\* equix::solve and one by a TryCompile build and solve_with_memory, and take
\* the solution at index 0.
C4_MemoryReuseEquivalence ==
    IsSolve(last) =>
        /\ \A other \in BothEntryPoints(last.challenge, last.nonce) :
              /\ (IsOk(last.ret) /\ IsOk(other.ret)) => other.ret = last.ret
              /\ \A k \in 1..Len(other.ext) : other.ext[k].seed = last.ext[1].seed
        /\ last.op = "hash" =>
              /\ Len(last.ext) = 1
              /\ last.ext[1].fn = "equix::solve"
        /\ last.op = "hash_with_memory" =>
              /\ last.ext[1].fn = "EquiXBuilder::build"
              /\ last.ext[1].runtime = "TryCompile"
              /\ Len(last.ext) = 2 => last.ext[2].fn = "EquiX::solve_with_memory"
        /\ IsOk(last.ret) =>
              last.ret.ok.d = equix_Solution_to_bytes(SolverAnswer(last.ext).ok[1])

C4_Witness ==
    /\ IsSolve(last) /\ last.op = "hash_with_memory"
    /\ last.memory.used /\ last.memory.scratch # last.ext[1].seed
    /\ IsOk(last.ret)
    /\ Len(SolverAnswer(last.ext).ok) >= 2
    /\ hash(last.challenge, last.nonce).ret = last.ret

\* C6: error outcomes.  A solve returns BadEquix exactly when the solver
\* rejects the seed, NoSolutions exactly when the solver accepts it and returns
\* no solution, and otherwise the bytes of the solution at index 0; index 0
\* is read only from a non-empty set, and hash and hash_with_memory return the
\* errors of digest and digest_with_memory unchanged.
C6_ErrorOutcomes ==
    IsSolve(last) =>
        LET answer == SolverAnswer(last.ext)
            dg == IF last.op = "hash" THEN digest(last.challenge, last.nonce).ret
                  ELSE digest_with_memory(last.memory, last.challenge, last.nonce).ret
        IN  /\ ~IsUB(last.ret) /\ ~IsUB(dg)
            /\ (last.ret = Err("BadEquix")) <=> ~IsOk(answer)
            /\ (last.ret = Err("NoSolutions")) <=> (IsOk(answer) /\ Len(answer.ok) = 0)
            /\ IsOk(last.ret) <=> (IsOk(answer) /\ Len(answer.ok) > 0)
            /\ IsOk(last.ret) =>
                  /\ last.ret.ok.d = equix_Solution_to_bytes(answer.ok[1])
                  /\ dg = Ok(last.ret.ok.d)
            /\ ~IsOk(last.ret) => dg = last.ret

C6_Witness ==
    /\ IsSolve(last) /\ last.op = "hash"
    /\ last.ret = Err("NoSolutions")
    /\ SolverAnswer(last.ext) = Ok(<<>>)

\* C5: validity consistency.  When hash or hash_with_memory succeeds on
\* (challenge, nonce) with digest d, Solution::new(d, nonce).is_valid(challenge)
\* is true; is_valid makes one call, to the verifier, on the seed
\* challenge || nonce and the stored digest as it is.
C5_ValidityConsistency ==
    /\ (IsSolve(last) /\ IsOk(last.ret)) =>
          Solution_is_valid(Solution_new(last.ret.ok.d, last.nonce), last.challenge).ret
    /\ (last.op = "is_valid" /\ Returned(last)) =>
          /\ Len(last.ext) = 1
          /\ last.ext[1].fn = "equix::verify_bytes"
          /\ last.ext[1].seed = last.challenge \o last.self.n
          /\ last.ext[1].digest = last.self.d
          /\ \A solved \in BothEntryPoints(last.challenge, last.self.n) :
                (IsOk(solved.ret) /\ solved.ret.ok.d = last.self.d) => last.ret

C5_Witness ==
    /\ last.op = "is_valid" /\ Returned(last)
    /\ last.ret
    /\ sorted(last.self.d) # last.self.d
    /\ IsOk(hash(last.challenge, last.self.n).ret)
    /\ hash(last.challenge, last.self.n).ret.ok.d = last.self.d

\* C7: to_hash.  to_hash returns the stored digest with Keccak-256 of
\* sorted(d) || n and leaves the solution as it was; for a solution built from
\* a successful hash(c, n), it returns that call's hash.
C7_ToHashFrame ==
    (last.op = "to_hash" /\ Returned(last)) =>
        /\ last.ret.h = Keccak256_finalize(sorted(last.self.d) \o last.self.n)
        /\ last.ret.h = hashv(last.self.d, last.self.n)
        /\ last.ret.d = last.self.d
        /\ sol = <<last.self>>
        /\ \A c \in Challenges :
              \A solved \in BothEntryPoints(c, last.self.n) :
                  (IsOk(solved.ret) /\ solved.ret.ok.d = last.self.d) =>
                      last.ret = solved.ret.ok

C7_Witness ==
    /\ last.op = "to_hash" /\ Returned(last)
    /\ sorted(last.self.d) # last.self.d
    /\ sol = <<last.self>>
    /\ \E c \in Challenges :
          /\ IsOk(hash(c, last.self.n).ret)
          /\ hash(c, last.self.n).ret.ok = last.ret

\* C9: determinism and history independence.  Whatever calls came before and
\* whatever they left in the scratch memory, a hash or hash_with_memory call
\* returns what the first such call with the same (challenge, nonce) returned.
C9_HistoryIndependence ==
    (IsSolve(last) /\ watch = <<last.challenge, last.nonce>>) =>
        /\ first # <<>>
        /\ first[1] = last.ret

C9_Witness ==
    /\ IsSolve(last) /\ last.op = "hash_with_memory"
    /\ watch = <<last.challenge, last.nonce>>
    /\ last.repeated
    /\ last.memory.used /\ last.memory.scratch # last.ext[1].seed
    /\ IsOk(last.ret) /\ first = <<last.ret>>
    /\ sol # <<>>

====
